---- MODULE Spec2Model ----
(***************************************************************************)
(* Model of the hyper microservice of src/src/main.rs: a request handler   *)
(* (MicroService::call) that classifies the request path with three        *)
(* regular expressions and serves user records kept in a Slab behind one   *)
(* mutex.  Strings (paths and response bodies) are sequences of            *)
(* one-character strings, so that formatting and parsing are computed.     *)
(***************************************************************************)
EXTENDS Integers, Sequences, FiniteSets, TLC

\* ------------------------------------------------------------------ bounds
\* The slab never grows beyond MaxSlots entries (guard of Request).
MaxSlots == 3

\* Concurrent handling: NumTasks connections are served at the same time,
\* and the slab never grows beyond MaxConcSlots entries (guard of Dispatch).
NumTasks == 2
MaxConcSlots == 2

\* ------------------------------------------------------- option and strings
None == [some |-> FALSE]
Some(x) == [some |-> TRUE, val |-> x]

\* A string is the sequence of its characters. An ASCII character is written
\* as itself; any other character is written "U+" followed by its code point
\* in upper-case hexadecimal ("U+0663" is ARABIC-INDIC DIGIT THREE).
Digits == <<"0", "1", "2", "3", "4", "5", "6", "7", "8", "9">>

\* char::to_digit(10) succeeds: one of the ten ASCII digits.
IsAsciiDigit(c) == \E i \in 1..10 : Digits[i] = c

\* The decimal digits (general category Nd) outside ASCII, ten per script.
NonAsciiDecimalDigits ==
    {"U+0660", "U+0661", "U+0662", "U+0663", "U+0664", "U+0665", "U+0666", "U+0667", "U+0668", "U+0669",
     "U+06F0", "U+06F1", "U+06F2", "U+06F3", "U+06F4", "U+06F5", "U+06F6", "U+06F7", "U+06F8", "U+06F9",
     "U+07C0", "U+07C1", "U+07C2", "U+07C3", "U+07C4", "U+07C5", "U+07C6", "U+07C7", "U+07C8", "U+07C9",
     "U+0966", "U+0967", "U+0968", "U+0969", "U+096A", "U+096B", "U+096C", "U+096D", "U+096E", "U+096F",
     "U+09E6", "U+09E7", "U+09E8", "U+09E9", "U+09EA", "U+09EB", "U+09EC", "U+09ED", "U+09EE", "U+09EF",
     "U+0A66", "U+0A67", "U+0A68", "U+0A69", "U+0A6A", "U+0A6B", "U+0A6C", "U+0A6D", "U+0A6E", "U+0A6F",
     "U+0AE6", "U+0AE7", "U+0AE8", "U+0AE9", "U+0AEA", "U+0AEB", "U+0AEC", "U+0AED", "U+0AEE", "U+0AEF",
     "U+0B66", "U+0B67", "U+0B68", "U+0B69", "U+0B6A", "U+0B6B", "U+0B6C", "U+0B6D", "U+0B6E", "U+0B6F",
     "U+0BE6", "U+0BE7", "U+0BE8", "U+0BE9", "U+0BEA", "U+0BEB", "U+0BEC", "U+0BED", "U+0BEE", "U+0BEF",
     "U+0C66", "U+0C67", "U+0C68", "U+0C69", "U+0C6A", "U+0C6B", "U+0C6C", "U+0C6D", "U+0C6E", "U+0C6F",
     "U+0CE6", "U+0CE7", "U+0CE8", "U+0CE9", "U+0CEA", "U+0CEB", "U+0CEC", "U+0CED", "U+0CEE", "U+0CEF",
     "U+0D66", "U+0D67", "U+0D68", "U+0D69", "U+0D6A", "U+0D6B", "U+0D6C", "U+0D6D", "U+0D6E", "U+0D6F",
     "U+0DE6", "U+0DE7", "U+0DE8", "U+0DE9", "U+0DEA", "U+0DEB", "U+0DEC", "U+0DED", "U+0DEE", "U+0DEF",
     "U+0E50", "U+0E51", "U+0E52", "U+0E53", "U+0E54", "U+0E55", "U+0E56", "U+0E57", "U+0E58", "U+0E59",
     "U+0ED0", "U+0ED1", "U+0ED2", "U+0ED3", "U+0ED4", "U+0ED5", "U+0ED6", "U+0ED7", "U+0ED8", "U+0ED9",
     "U+0F20", "U+0F21", "U+0F22", "U+0F23", "U+0F24", "U+0F25", "U+0F26", "U+0F27", "U+0F28", "U+0F29",
     "U+1040", "U+1041", "U+1042", "U+1043", "U+1044", "U+1045", "U+1046", "U+1047", "U+1048", "U+1049",
     "U+1090", "U+1091", "U+1092", "U+1093", "U+1094", "U+1095", "U+1096", "U+1097", "U+1098", "U+1099",
     "U+17E0", "U+17E1", "U+17E2", "U+17E3", "U+17E4", "U+17E5", "U+17E6", "U+17E7", "U+17E8", "U+17E9",
     "U+1810", "U+1811", "U+1812", "U+1813", "U+1814", "U+1815", "U+1816", "U+1817", "U+1818", "U+1819",
     "U+1946", "U+1947", "U+1948", "U+1949", "U+194A", "U+194B", "U+194C", "U+194D", "U+194E", "U+194F",
     "U+19D0", "U+19D1", "U+19D2", "U+19D3", "U+19D4", "U+19D5", "U+19D6", "U+19D7", "U+19D8", "U+19D9",
     "U+1A80", "U+1A81", "U+1A82", "U+1A83", "U+1A84", "U+1A85", "U+1A86", "U+1A87", "U+1A88", "U+1A89",
     "U+1A90", "U+1A91", "U+1A92", "U+1A93", "U+1A94", "U+1A95", "U+1A96", "U+1A97", "U+1A98", "U+1A99",
     "U+1B50", "U+1B51", "U+1B52", "U+1B53", "U+1B54", "U+1B55", "U+1B56", "U+1B57", "U+1B58", "U+1B59",
     "U+1BB0", "U+1BB1", "U+1BB2", "U+1BB3", "U+1BB4", "U+1BB5", "U+1BB6", "U+1BB7", "U+1BB8", "U+1BB9",
     "U+1C40", "U+1C41", "U+1C42", "U+1C43", "U+1C44", "U+1C45", "U+1C46", "U+1C47", "U+1C48", "U+1C49",
     "U+1C50", "U+1C51", "U+1C52", "U+1C53", "U+1C54", "U+1C55", "U+1C56", "U+1C57", "U+1C58", "U+1C59",
     "U+A620", "U+A621", "U+A622", "U+A623", "U+A624", "U+A625", "U+A626", "U+A627", "U+A628", "U+A629",
     "U+A8D0", "U+A8D1", "U+A8D2", "U+A8D3", "U+A8D4", "U+A8D5", "U+A8D6", "U+A8D7", "U+A8D8", "U+A8D9",
     "U+A900", "U+A901", "U+A902", "U+A903", "U+A904", "U+A905", "U+A906", "U+A907", "U+A908", "U+A909",
     "U+A9D0", "U+A9D1", "U+A9D2", "U+A9D3", "U+A9D4", "U+A9D5", "U+A9D6", "U+A9D7", "U+A9D8", "U+A9D9",
     "U+A9F0", "U+A9F1", "U+A9F2", "U+A9F3", "U+A9F4", "U+A9F5", "U+A9F6", "U+A9F7", "U+A9F8", "U+A9F9",
     "U+AA50", "U+AA51", "U+AA52", "U+AA53", "U+AA54", "U+AA55", "U+AA56", "U+AA57", "U+AA58", "U+AA59",
     "U+ABF0", "U+ABF1", "U+ABF2", "U+ABF3", "U+ABF4", "U+ABF5", "U+ABF6", "U+ABF7", "U+ABF8", "U+ABF9",
     "U+FF10", "U+FF11", "U+FF12", "U+FF13", "U+FF14", "U+FF15", "U+FF16", "U+FF17", "U+FF18", "U+FF19",
     "U+104A0", "U+104A1", "U+104A2", "U+104A3", "U+104A4", "U+104A5", "U+104A6", "U+104A7", "U+104A8", "U+104A9",
     "U+10D30", "U+10D31", "U+10D32", "U+10D33", "U+10D34", "U+10D35", "U+10D36", "U+10D37", "U+10D38", "U+10D39",
     "U+10D40", "U+10D41", "U+10D42", "U+10D43", "U+10D44", "U+10D45", "U+10D46", "U+10D47", "U+10D48", "U+10D49",
     "U+11066", "U+11067", "U+11068", "U+11069", "U+1106A", "U+1106B", "U+1106C", "U+1106D", "U+1106E", "U+1106F",
     "U+110F0", "U+110F1", "U+110F2", "U+110F3", "U+110F4", "U+110F5", "U+110F6", "U+110F7", "U+110F8", "U+110F9",
     "U+11136", "U+11137", "U+11138", "U+11139", "U+1113A", "U+1113B", "U+1113C", "U+1113D", "U+1113E", "U+1113F",
     "U+111D0", "U+111D1", "U+111D2", "U+111D3", "U+111D4", "U+111D5", "U+111D6", "U+111D7", "U+111D8", "U+111D9",
     "U+112F0", "U+112F1", "U+112F2", "U+112F3", "U+112F4", "U+112F5", "U+112F6", "U+112F7", "U+112F8", "U+112F9",
     "U+11450", "U+11451", "U+11452", "U+11453", "U+11454", "U+11455", "U+11456", "U+11457", "U+11458", "U+11459",
     "U+114D0", "U+114D1", "U+114D2", "U+114D3", "U+114D4", "U+114D5", "U+114D6", "U+114D7", "U+114D8", "U+114D9",
     "U+11650", "U+11651", "U+11652", "U+11653", "U+11654", "U+11655", "U+11656", "U+11657", "U+11658", "U+11659",
     "U+116C0", "U+116C1", "U+116C2", "U+116C3", "U+116C4", "U+116C5", "U+116C6", "U+116C7", "U+116C8", "U+116C9",
     "U+116D0", "U+116D1", "U+116D2", "U+116D3", "U+116D4", "U+116D5", "U+116D6", "U+116D7", "U+116D8", "U+116D9",
     "U+116DA", "U+116DB", "U+116DC", "U+116DD", "U+116DE", "U+116DF", "U+116E0", "U+116E1", "U+116E2", "U+116E3",
     "U+11730", "U+11731", "U+11732", "U+11733", "U+11734", "U+11735", "U+11736", "U+11737", "U+11738", "U+11739",
     "U+118E0", "U+118E1", "U+118E2", "U+118E3", "U+118E4", "U+118E5", "U+118E6", "U+118E7", "U+118E8", "U+118E9",
     "U+11950", "U+11951", "U+11952", "U+11953", "U+11954", "U+11955", "U+11956", "U+11957", "U+11958", "U+11959",
     "U+11BF0", "U+11BF1", "U+11BF2", "U+11BF3", "U+11BF4", "U+11BF5", "U+11BF6", "U+11BF7", "U+11BF8", "U+11BF9",
     "U+11C50", "U+11C51", "U+11C52", "U+11C53", "U+11C54", "U+11C55", "U+11C56", "U+11C57", "U+11C58", "U+11C59",
     "U+11D50", "U+11D51", "U+11D52", "U+11D53", "U+11D54", "U+11D55", "U+11D56", "U+11D57", "U+11D58", "U+11D59",
     "U+11DA0", "U+11DA1", "U+11DA2", "U+11DA3", "U+11DA4", "U+11DA5", "U+11DA6", "U+11DA7", "U+11DA8", "U+11DA9",
     "U+11F50", "U+11F51", "U+11F52", "U+11F53", "U+11F54", "U+11F55", "U+11F56", "U+11F57", "U+11F58", "U+11F59",
     "U+16130", "U+16131", "U+16132", "U+16133", "U+16134", "U+16135", "U+16136", "U+16137", "U+16138", "U+16139",
     "U+16A60", "U+16A61", "U+16A62", "U+16A63", "U+16A64", "U+16A65", "U+16A66", "U+16A67", "U+16A68", "U+16A69",
     "U+16AC0", "U+16AC1", "U+16AC2", "U+16AC3", "U+16AC4", "U+16AC5", "U+16AC6", "U+16AC7", "U+16AC8", "U+16AC9",
     "U+16B50", "U+16B51", "U+16B52", "U+16B53", "U+16B54", "U+16B55", "U+16B56", "U+16B57", "U+16B58", "U+16B59",
     "U+16D70", "U+16D71", "U+16D72", "U+16D73", "U+16D74", "U+16D75", "U+16D76", "U+16D77", "U+16D78", "U+16D79",
     "U+1CCF0", "U+1CCF1", "U+1CCF2", "U+1CCF3", "U+1CCF4", "U+1CCF5", "U+1CCF6", "U+1CCF7", "U+1CCF8", "U+1CCF9",
     "U+1D7CE", "U+1D7CF", "U+1D7D0", "U+1D7D1", "U+1D7D2", "U+1D7D3", "U+1D7D4", "U+1D7D5", "U+1D7D6", "U+1D7D7",
     "U+1D7D8", "U+1D7D9", "U+1D7DA", "U+1D7DB", "U+1D7DC", "U+1D7DD", "U+1D7DE", "U+1D7DF", "U+1D7E0", "U+1D7E1",
     "U+1D7E2", "U+1D7E3", "U+1D7E4", "U+1D7E5", "U+1D7E6", "U+1D7E7", "U+1D7E8", "U+1D7E9", "U+1D7EA", "U+1D7EB",
     "U+1D7EC", "U+1D7ED", "U+1D7EE", "U+1D7EF", "U+1D7F0", "U+1D7F1", "U+1D7F2", "U+1D7F3", "U+1D7F4", "U+1D7F5",
     "U+1D7F6", "U+1D7F7", "U+1D7F8", "U+1D7F9", "U+1D7FA", "U+1D7FB", "U+1D7FC", "U+1D7FD", "U+1D7FE", "U+1D7FF",
     "U+1E140", "U+1E141", "U+1E142", "U+1E143", "U+1E144", "U+1E145", "U+1E146", "U+1E147", "U+1E148", "U+1E149",
     "U+1E2F0", "U+1E2F1", "U+1E2F2", "U+1E2F3", "U+1E2F4", "U+1E2F5", "U+1E2F6", "U+1E2F7", "U+1E2F8", "U+1E2F9",
     "U+1E4F0", "U+1E4F1", "U+1E4F2", "U+1E4F3", "U+1E4F4", "U+1E4F5", "U+1E4F6", "U+1E4F7", "U+1E4F8", "U+1E4F9",
     "U+1E5F1", "U+1E5F2", "U+1E5F3", "U+1E5F4", "U+1E5F5", "U+1E5F6", "U+1E5F7", "U+1E5F8", "U+1E5F9", "U+1E5FA",
     "U+1E950", "U+1E951", "U+1E952", "U+1E953", "U+1E954", "U+1E955", "U+1E956", "U+1E957", "U+1E958", "U+1E959",
     "U+1FBF0", "U+1FBF1", "U+1FBF2", "U+1FBF3", "U+1FBF4", "U+1FBF5", "U+1FBF6", "U+1FBF7", "U+1FBF8", "U+1FBF9"}

\* The regex class \d: the regex crate is Unicode-aware by default, so \d is
\* every character of general category Nd, not the ASCII digits alone.
IsDigit(c) == IsAsciiDigit(c) \/ c \in NonAsciiDecimalDigits

DigitVal(c) == (CHOOSE i \in 1..10 : Digits[i] = c) - 1

\* usize::to_string: the decimal digits, most significant first, no padding.
RECURSIVE to_string(_)
to_string(n) ==
    IF n < 10 THEN <<Digits[n + 1]>>
    ELSE to_string(n \div 10) \o <<Digits[(n % 10) + 1]>>

\* Mutant of join: a separator follows every piece, the last one too.
RECURSIVE join_trailing(_, _)
join_trailing(pieces, sep) ==
    IF pieces = <<>> THEN <<>>
    ELSE pieces[1] \o sep \o join_trailing(Tail(pieces), sep)

\* [String]::join(","): the pieces with one separator between neighbours.
RECURSIVE join(_, _)
join(pieces, sep) ==
    IF pieces = <<>> THEN <<>>
    ELSE IF Len(pieces) = 1 THEN pieces[1]
    ELSE pieces[1] \o sep \o join(Tail(pieces), sep)

\* The decimal digits of u64::MAX = 18446744073709551615.
U64MaxDigits ==
    <<"1", "8", "4", "4", "6", "7", "4", "4", "0", "7",
      "3", "7", "0", "9", "5", "5", "1", "6", "1", "5">>

RECURSIVE StripZeros(_)
StripZeros(s) ==
    IF Len(s) > 1 /\ s[1] = "0" THEN StripZeros(Tail(s)) ELSE s

\* a <= b for digit strings of equal length
RECURSIVE DigitsLeq(_, _)
DigitsLeq(a, b) ==
    IF a = <<>> THEN TRUE
    ELSE IF DigitVal(a[1]) < DigitVal(b[1]) THEN TRUE
    ELSE IF DigitVal(a[1]) > DigitVal(b[1]) THEN FALSE
    ELSE DigitsLeq(Tail(a), Tail(b))

FitsU64(s) ==
    LET t == StripZeros(s) IN
    \/ Len(t) < Len(U64MaxDigits)
    \/ Len(t) = Len(U64MaxDigits) /\ DigitsLeq(t, U64MaxDigits)

RECURSIVE DecimalValue(_)
DecimalValue(s) ==
    IF s = <<>> THEN 0
    ELSE DecimalValue(SubSeq(s, 1, Len(s) - 1)) * 10 + DigitVal(s[Len(s)])

\* The digits u64::from_str reads: the string without one leading plus sign,
\* which is dropped only when something follows it.
Unsigned(s) == IF Len(s) > 1 /\ s[1] = "+" THEN Tail(s) ELSE s

\* Mutant of parse_u64: a value above u64::MAX saturates to zero instead of
\* failing.
parse_u64_lenient(s) ==
    IF s = <<>> \/ (\E i \in 1..Len(Unsigned(s)) : ~IsAsciiDigit(Unsigned(s)[i]))
    THEN None
    ELSE IF ~FitsU64(Unsigned(s)) THEN Some(0)
    ELSE Some(DecimalValue(Unsigned(s)))

\* str::parse::<u64>().ok(): None for the empty string, for a character that
\* is no ASCII digit (a digit of another script included) and for a value
\* above u64::MAX.
parse_u64(s) ==
    IF s = <<>> \/ (\E i \in 1..Len(Unsigned(s)) : ~IsAsciiDigit(Unsigned(s)[i]))
    THEN None
    ELSE IF ~FitsU64(Unsigned(s)) THEN None
    ELSE Some(DecimalValue(Unsigned(s)))

\* ----------------------------------------------------------------- regexes
IsPrefix(p, s) == Len(p) <= Len(s) /\ SubSeq(s, 1, Len(p)) = p

Slash == <<"/">>
IndexHtm == <<"/", "i", "n", "d", "e", "x", ".", "h", "t", "m">>
UserPrefix == <<"/", "u", "s", "e", "r", "/">>
UsersStr == <<"/", "u", "s", "e", "r", "s">>

\* Mutant of INDEX_PATH: the regex ^/(index(\.html)?)?$
INDEX_PATH_optional_extension(path) ==
    \/ path = Slash
    \/ path = <<"/", "i", "n", "d", "e", "x">>
    \/ path = IndexHtm \o <<"l">>

\* ^/(index\.html?)?$
INDEX_PATH(path) ==
    \/ path = Slash
    \/ path = IndexHtm
    \/ path = IndexHtm \o <<"l">>

\* ^/users/?$
USERS_PATH(path) ==
    \/ path = UsersStr
    \/ path = UsersStr \o Slash

\* Mutant of USER_PATH: the regex ^/user/((?P<user_id>\d*?)/?)?$, whose id
\* group may be empty.
USER_PATH_empty_id(path) ==
    IF ~IsPrefix(UserPrefix, path) THEN None
    ELSE LET rest == SubSeq(path, Len(UserPrefix) + 1, Len(path))
             body == IF rest # <<>> /\ rest[Len(rest)] = "/"
                     THEN SubSeq(rest, 1, Len(rest) - 1) ELSE rest
         IN  IF body = <<>> THEN Some(None)
             ELSE IF \A i \in 1..Len(body) : IsDigit(body[i])
                  THEN Some(Some(body))
                  ELSE None

\* ^/user/((?P<user_id>\d+?)/?)?$ : None when the path does not match,
\* otherwise Some(the user_id group), itself None when the group took no part.
USER_PATH(path) ==
    IF ~IsPrefix(UserPrefix, path) THEN None
    ELSE LET rest == SubSeq(path, Len(UserPrefix) + 1, Len(path))
             body == IF rest # <<>> /\ rest[Len(rest)] = "/"
                     THEN SubSeq(rest, 1, Len(rest) - 1) ELSE rest
         IN  IF rest = <<>> THEN Some(None)
             ELSE IF body # <<>> /\ (\A i \in 1..Len(body) : IsDigit(body[i]))
                  THEN Some(Some(body))
                  ELSE None

\* cap.name("user_id").and_then(|m| m.as_str().parse::<UserId>().ok().map(|x| x as usize))
user_id_of(cap) ==
    IF cap.some THEN parse_u64(cap.val) ELSE None

\* -------------------------------------------------------------------- slab
\* Slab<UserData>: entries is the vector of slots, each Occupied or Vacant
\* with the index of the next vacant slot; next is the head of that chain
\* (the slot the next insert takes; entries.len() when no slot is vacant).
\* UserData is a unit struct, so an occupied slot carries no payload.
Occupied == [tag |-> "Occupied"]
Vacant(n) == [tag |-> "Vacant", next |-> n]

\* Slab::new()
slab_new == [entries |-> <<>>, next |-> 0]

\* Slab::insert(val): takes slot `next`; pushes when that is entries.len(),
\* otherwise unlinks the vacant slot from the chain.  Slot k is entries[k + 1].
slab_insert(slab) ==
    LET key == slab.next IN
    IF key = Len(slab.entries)
    THEN [slab |-> [entries |-> Append(slab.entries, Occupied), next |-> key + 1],
          key |-> key]
    ELSE [slab |-> [entries |-> [slab.entries EXCEPT ![key + 1] = Occupied],
                    next |-> slab.entries[key + 1].next],
          key |-> key]

\* Mutant of slab_contains: any slot inside the vector counts, vacant or not.
slab_contains_in_range(slab, key) == key < Len(slab.entries)

\* Slab::contains(key) / Slab::get(key).is_some() / Slab::get_mut(key).is_some()
slab_contains(slab, key) ==
    key < Len(slab.entries) /\ slab.entries[key + 1].tag = "Occupied"

\* Mutant of slab_remove: the slot is vacated but does not become the head of
\* the vacant chain.
slab_remove_keeps_next(slab, key) ==
    [entries |-> [slab.entries EXCEPT ![key + 1] = Vacant(slab.next)],
     next |-> slab.next]

\* Slab::remove(key) on an occupied slot: the slot becomes the head of the
\* vacant chain.
slab_remove(slab, key) ==
    [entries |-> [slab.entries EXCEPT ![key + 1] = Vacant(slab.next)],
     next |-> key]

\* Slab::iter(): the keys of the occupied slots in slot order.
RECURSIVE slab_keys_from(_, _)
slab_keys_from(slab, k) ==
    IF k >= Len(slab.entries) THEN <<>>
    ELSE (IF slab.entries[k + 1].tag = "Occupied" THEN <<k>> ELSE <<>>)
         \o slab_keys_from(slab, k + 1)

\* Mutant of slab_iter: vacant slots are listed too.
slab_iter_all_slots(slab) == [i \in 1..Len(slab.entries) |-> i - 1]

slab_iter(slab) == slab_keys_from(slab, 0)

\* --------------------------------------------------------------- responses
OK == 200
BAD_REQUEST == 400
NOT_FOUND == 404
METHOD_NOT_ALLOWED == 405

\* The static page, as one piece of text.
INDEX ==
    <<"\n<!doctype html>\n<html>\n    <head>\n        <title>Rust Microservice</title>\n    </head>\n    <body>\n        <h3>Rust Microservice</h3>\n    </body>\n</html>\n">>

\* impl fmt::Display for UserData
UserData_to_string == <<"{", "}">>

\* Response::new(body): status 200 with the body.
Response_new(body) == [status |-> OK, body |-> body]

\* response_with_code(status_code): the status with an empty body.
response_with_code(status_code) == [status |-> status_code, body |-> <<>>]

\* ----------------------------------------------------------------- handler
\* Each branch yields the store after the request and the response.
Reply(users, response) == [users |-> users, response |-> response]

index_branch(users, method) ==
    IF method = "GET" THEN Reply(users, Response_new(INDEX))
    ELSE Reply(users, response_with_code(METHOD_NOT_ALLOWED))

render_list(keys) ==
    join([i \in 1..Len(keys) |-> to_string(keys[i])], <<",">>)

users_branch(users, method) ==
    IF method = "GET" THEN Reply(users, Response_new(render_list(slab_iter(users))))
    ELSE Reply(users, response_with_code(METHOD_NOT_ALLOWED))

\* Mutant of post_none: answers with the slab's next key after the insert
\* instead of the key the insert returned.
post_none_next_key(users) ==
    LET r == slab_insert(users) IN
    Reply(r.slab, Response_new(to_string(r.slab.next)))

post_none(users) ==
    LET r == slab_insert(users) IN
    Reply(r.slab, Response_new(to_string(r.key)))

\* Mutant of post_some: the supplied id is ignored and a record is inserted.
post_some_inserts(users, id) ==
    LET r == slab_insert(users) IN
    Reply(r.slab, Response_new(to_string(r.key)))

post_some(users, id) == Reply(users, response_with_code(BAD_REQUEST))

get_some(users, id) ==
    IF slab_contains(users, id) THEN Reply(users, Response_new(UserData_to_string))
    ELSE Reply(users, response_with_code(NOT_FOUND))

\* Mutant of put_some: a PUT on an absent id creates a record.
put_some_upsert(users, id) ==
    IF slab_contains(users, id) THEN Reply(users, response_with_code(OK))
    ELSE Reply(slab_insert(users).slab, response_with_code(NOT_FOUND))

put_some(users, id) ==
    IF slab_contains(users, id) THEN Reply(users, response_with_code(OK))
    ELSE Reply(users, response_with_code(NOT_FOUND))

\* Mutant of delete_some: answers 200 without removing the record.
delete_some_keeps_record(users, id) ==
    IF slab_contains(users, id) THEN Reply(users, response_with_code(OK))
    ELSE Reply(users, response_with_code(NOT_FOUND))

\* Mutant of delete_some: the slot is freed before the occupancy test.
delete_some_unguarded(users, id) ==
    Reply(slab_remove(users, id),
          response_with_code(IF slab_contains(users, id) THEN OK ELSE NOT_FOUND))

delete_some(users, id) ==
    IF slab_contains(users, id)
    THEN Reply(slab_remove(users, id), response_with_code(OK))
    ELSE Reply(users, response_with_code(NOT_FOUND))

\* Mutant of user_branch: the catch-all arm answers 404.
user_branch_default_404(users, method, user_id) ==
    IF method = "POST" /\ ~user_id.some THEN post_none(users)
    ELSE IF method = "POST" THEN post_some(users, user_id.val)
    ELSE IF method = "GET" /\ user_id.some THEN get_some(users, user_id.val)
    ELSE IF method = "PUT" /\ user_id.some THEN put_some(users, user_id.val)
    ELSE IF method = "DELETE" /\ user_id.some THEN delete_some(users, user_id.val)
    ELSE Reply(users, response_with_code(NOT_FOUND))

\* match (method, user_id)
user_branch(users, method, user_id) ==
    IF method = "POST" /\ ~user_id.some THEN post_none(users)
    ELSE IF method = "POST" THEN post_some(users, user_id.val)
    ELSE IF method = "GET" /\ user_id.some THEN get_some(users, user_id.val)
    ELSE IF method = "PUT" /\ user_id.some THEN put_some(users, user_id.val)
    ELSE IF method = "DELETE" /\ user_id.some THEN delete_some(users, user_id.val)
    ELSE Reply(users, response_with_code(METHOD_NOT_ALLOWED))

\* MicroService::call
call(users, method, path) ==
    IF INDEX_PATH(path) THEN index_branch(users, method)
    ELSE IF USERS_PATH(path) THEN users_branch(users, method)
    ELSE IF USER_PATH(path).some
         THEN user_branch(users, method, user_id_of(USER_PATH(path).val))
         ELSE Reply(users, response_with_code(NOT_FOUND))

\* The two halves of MicroService::call, for the step-by-step run: what
\* the regexes make of the path, and the branch taken on it.
classify(path) ==
    IF INDEX_PATH(path) THEN [route |-> "index", user_id |-> None]
    ELSE IF USERS_PATH(path) THEN [route |-> "users", user_id |-> None]
    ELSE IF USER_PATH(path).some
         THEN [route |-> "user", user_id |-> user_id_of(USER_PATH(path).val)]
         ELSE [route |-> "none", user_id |-> None]

operate(users, method, cls) ==
    IF cls.route = "index" THEN index_branch(users, method)
    ELSE IF cls.route = "users" THEN users_branch(users, method)
    ELSE IF cls.route = "user" THEN user_branch(users, method, cls.user_id)
    ELSE Reply(users, response_with_code(NOT_FOUND))

\* ------------------------------------------------------------ state machine
\* users: the Slab behind user_db (created empty in main).
\* req, resp: the request handled last and the response it was given.
\* live, ever, freed, last, prev, scen: history of the exchanges, kept from the
\* requests and responses alone (never read by the handler):
\*   live  - ids returned by a successful POST and not removed since by a
\*           successful DELETE;
\*   ever  - ids returned by any successful POST so far;
\*   freed - ids removed by successful DELETEs and not handed out again,
\*           most recent first;
\*   last  - what the last exchange did (an insert, a remove, or neither);
\*   prev  - what the exchange before the last one did;
\*   scen  - how many requests of Scenario the history consists of so far
\*           (NoScenario once the history is not a prefix of it);
\*   peak  - the largest number of ids that were live at the same time;
\*   lastMut - what the last exchange that inserted or removed did: "remove"
\*           of id, "reuse" (an insert returning id, the insert-or-remove
\*           before it being a remove), or "other" (any other insert, or none).
VARIABLES users, req, resp, live, ever, freed, last, prev, scen, peak, lastMut

seqVars == <<users, req, resp, live, ever, freed, last, prev, scen, peak, lastMut>>

\* A second store with a request history of its own, for comparing two
\* histories: usersB is its slab, liveB and freedB what live and freed are
\* for users.
VARIABLES usersB, liveB, freedB

pairVars == <<usersB, liveB, freedB>>

\* Requests handled concurrently, one task per connection, each running
\* MicroService::call step by step on the shared store users:
\*   pc     - where each task is in call: "idle" (no request), "called",
\*            "locked", "classified", "operated", "unlocked";
\*   treq   - the request each task is handling;
\*   troute - the route and id each task made of its path;
\*   tresp  - the response each task built;
\*   lock   - the task holding the mutex of user_db, NoTask when it is free;
\* and, kept for comparison only (never read by the tasks):
\*   serial - the store that results from handling the requests one at a
\*            time in the order they acquired the lock;
\*   texp   - the response each task gets in that one-at-a-time run;
\*   towns  - whether the task was answered by an insert whose id no DELETE
\*            has removed since.
VARIABLES pc, treq, troute, tresp, lock, serial, texp, towns

concVars == <<pc, treq, troute, tresp, lock, serial, texp, towns>>

vars == <<seqVars, pairVars, concVars>>

Methods == {"GET", "POST", "PUT", "DELETE", "PATCH"}

OverflowId ==
    <<"1", "8", "4", "4", "6", "7", "4", "4", "0", "7",
      "3", "7", "0", "9", "5", "5", "1", "6", "1", "6">>

\* /user/ followed by this character matches USER_PATH (it is in \d) and
\* does not parse as a u64.
ArabicIndicThree == <<"U+0663">>

\* Ids named in request paths: every slot the bounded slab can hold and a
\* two-digit id that is never issued.
PathIds == (0..(MaxSlots - 1)) \cup {99}

Paths ==
    {Slash, IndexHtm, IndexHtm \o <<"l">>,
     <<"/", "i", "n", "d", "e", "x">>,
     UsersStr, UsersStr \o Slash,
     <<"/", "u", "s", "e", "r">>,
     UserPrefix, UserPrefix \o Slash,
     UserPrefix \o <<"0", "/">>,
     UserPrefix \o <<"0", "1">>,
     UserPrefix \o OverflowId,
     UserPrefix \o OverflowId \o <<"0">>,
     UserPrefix \o ArabicIndicThree,
     <<"/", "u", "n", "k", "n", "o", "w", "n", "/", "p", "a", "t", "h">>}
    \cup {UserPrefix \o to_string(i) : i \in PathIds}

\* The id a request path names, if it names one.
PathId(path) ==
    IF USER_PATH(path).some THEN user_id_of(USER_PATH(path).val) ELSE None

\* PathId and the UserById classification, tabulated over the request paths.
PathIdOf == [p \in Paths |-> PathId(p)]

IsUserPath == [p \in Paths |-> USER_PATH(p).some]

\* A POST on a /user/ path answered 200; the id is the one its body gives.
InsertOk(rq, rs) ==
    rq.method = "POST" /\ IsUserPath[rq.path] /\ rs.status = OK

BodyId(rs) == parse_u64(rs.body).val

\* A DELETE on /user/{id} answered 200.
RemoveOk(rq, rs) ==
    rq.method = "DELETE" /\ PathIdOf[rq.path].some /\ rs.status = OK

NoExchange == [kind |-> "other", id |-> 0]

Summary(rq, rs) ==
    IF InsertOk(rq, rs) THEN [kind |-> "insert", id |-> BodyId(rs)]
    ELSE IF RemoveOk(rq, rs) THEN [kind |-> "remove", id |-> PathIdOf[rq.path].val]
    ELSE NoExchange

NoMutation == [kind |-> "other", id |-> 0]

\* The freed ids, most recent first, after an exchange that did ex.
FreedAfter(f, ex) ==
    IF ex.kind = "insert" THEN (IF f = <<>> THEN f ELSE Tail(f))
    ELSE IF ex.kind = "remove" THEN <<ex.id>> \o f
    ELSE f

\* lastMut after an exchange that did ex.
MutAfter(mut, ex) ==
    IF ex.kind = "remove" THEN [kind |-> "remove", id |-> ex.id]
    ELSE IF ex.kind = "insert"
         THEN (IF mut.kind = "remove" THEN [kind |-> "reuse", id |-> ex.id]
               ELSE NoMutation)
         ELSE mut

\* The live ids after an exchange that did ex.
LiveAfter(l, ex) ==
    IF ex.kind = "insert" THEN l \cup {ex.id}
    ELSE IF ex.kind = "remove" THEN l \ {ex.id}
    ELSE l

Max(a, b) == IF a >= b THEN a ELSE b

Rq(m, p) == [method |-> m, path |-> p]

NoTask == 0
Tasks == 1..NumTasks
NoRequest == Rq("NONE", <<>>)
NoResponse == [status |-> 0, body |-> <<>>]
NoRoute == [route |-> "unclassified", user_id |-> None]

Scenario ==
    <<Rq("POST", UserPrefix),
      Rq("GET", UserPrefix \o <<"0">>),
      Rq("DELETE", UserPrefix \o <<"0">>),
      Rq("GET", UserPrefix \o <<"0">>),
      Rq("POST", UserPrefix)>>

NoScenario == 0 - 1

Init ==
    /\ users = slab_new
    /\ req = NoRequest
    /\ resp = NoResponse
    /\ live = {}
    /\ ever = {}
    /\ freed = <<>>
    /\ last = NoExchange
    /\ prev = NoExchange
    /\ scen = 0
    /\ peak = 0
    /\ lastMut = NoMutation
    /\ usersB = slab_new
    /\ liveB = {}
    /\ freedB = <<>>
    /\ pc = [t \in Tasks |-> "idle"]
    /\ treq = [t \in Tasks |-> NoRequest]
    /\ troute = [t \in Tasks |-> NoRoute]
    /\ tresp = [t \in Tasks |-> NoResponse]
    /\ lock = NoTask
    /\ serial = slab_new
    /\ texp = [t \in Tasks |-> NoResponse]
    /\ towns = [t \in Tasks |-> FALSE]

\* One request handled by MicroService::call under the store lock.
Request(m, p) ==
    \E r \in {call(users, m, p)} :
    \E ex \in {Summary(Rq(m, p), r.response)} :
        /\ Len(r.users.entries) <= MaxSlots
        /\ users' = r.users
        /\ req' = Rq(m, p)
        /\ resp' = r.response
        /\ live' = LiveAfter(live, ex)
        /\ ever' = IF ex.kind = "insert" THEN ever \cup {ex.id} ELSE ever
        /\ freed' = FreedAfter(freed, ex)
        /\ last' = ex
        /\ prev' = last
        /\ scen' = IF scen \in 0..(Len(Scenario) - 1) /\ Rq(m, p) = Scenario[scen + 1]
                   THEN scen + 1 ELSE NoScenario
        /\ peak' = Max(peak, Cardinality(LiveAfter(live, ex)))
        /\ lastMut' = MutAfter(lastMut, ex)
        /\ UNCHANGED <<pairVars, concVars>>

\* The requests tried: every method on the /user/ paths, and GET and two
\* other methods on the paths that never reach the store.
OtherPathMethods == {"GET", "POST", "PATCH"}

Requests ==
    {Rq(m, p) : m \in Methods, p \in {q \in Paths : IsUserPath[q]}}
    \cup {Rq(m, p) : m \in OtherPathMethods, p \in {q \in Paths : ~IsUserPath[q]}}

Next == \E rq \in Requests : Request(rq.method, rq.path)

Spec == Init /\ [][Next]_vars

\* ------------------------------------------------------------ two histories
\* Two stores, each served by MicroService::call with its own sequence of
\* requests; only the stores and the ids their responses made live or freed
\* are kept.
RequestA(m, p) ==
    \E r \in {call(users, m, p)} :
    \E ex \in {Summary(Rq(m, p), r.response)} :
        /\ Len(r.users.entries) <= MaxSlots
        /\ users' = r.users
        /\ live' = LiveAfter(live, ex)
        /\ freed' = FreedAfter(freed, ex)
        /\ UNCHANGED <<req, resp, ever, last, prev, scen, peak, lastMut, pairVars, concVars>>

RequestB(m, p) ==
    \E r \in {call(usersB, m, p)} :
    \E ex \in {Summary(Rq(m, p), r.response)} :
        /\ Len(r.users.entries) <= MaxSlots
        /\ usersB' = r.users
        /\ liveB' = LiveAfter(liveB, ex)
        /\ freedB' = FreedAfter(freedB, ex)
        /\ UNCHANGED <<seqVars, concVars>>

NextPair ==
    \/ \E rq \in Requests : RequestA(rq.method, rq.path)
    \/ \E rq \in Requests : RequestB(rq.method, rq.path)

SpecPair == Init /\ [][NextPair]_vars

\* ------------------------------------------------------ concurrent handling
\* The requests the concurrent tasks are given.
ConcRequests ==
    {Rq("POST", UserPrefix),
     Rq("DELETE", UserPrefix \o <<"0">>),
     Rq("GET", UsersStr)}

Inserts(rq) ==
    rq.method = "POST" /\ IsUserPath[rq.path] /\ ~PathIdOf[rq.path].some

InCritical == {"locked", "classified", "operated"}

seqHistory == <<req, resp, live, ever, freed, last, prev, scen, peak, lastMut>>

\* hyper hands a request to call: the method and the path are read.  An
\* insert is only dispatched while the slab has room for it.
Dispatch(t, rq) ==
    /\ pc[t] = "idle"
    /\ Inserts(rq) =>
          Len(users.entries)
            + Cardinality({u \in Tasks : /\ pc[u] \in {"called", "locked", "classified"}
                                         /\ Inserts(treq[u])})
          < MaxConcSlots
    /\ pc' = [pc EXCEPT ![t] = "called"]
    /\ treq' = [treq EXCEPT ![t] = rq]
    /\ UNCHANGED <<users, seqHistory, pairVars, troute, tresp, lock, serial, texp, towns>>

\* Mutant of Lock: the mutex is taken without waiting for its holder.
Lock_without_waiting(t) ==
    /\ pc[t] = "called"
    /\ lock' = t
    /\ pc' = [pc EXCEPT ![t] = "locked"]
    /\ \E r \in {call(serial, treq[t].method, treq[t].path)} :
          /\ serial' = r.users
          /\ texp' = [texp EXCEPT ![t] = r.response]
    /\ UNCHANGED <<users, seqHistory, pairVars, treq, troute, tresp, towns>>

\* self.user_db.lock().unwrap(): waits until the mutex is free and takes it.
Lock(t) ==
    /\ pc[t] = "called"
    /\ lock = NoTask
    /\ lock' = t
    /\ pc' = [pc EXCEPT ![t] = "locked"]
    /\ \E r \in {call(serial, treq[t].method, treq[t].path)} :
          /\ serial' = r.users
          /\ texp' = [texp EXCEPT ![t] = r.response]
    /\ UNCHANGED <<users, seqHistory, pairVars, treq, troute, tresp, towns>>

\* The regexes are matched against the path and the id is parsed.
Classify(t) ==
    /\ pc[t] = "locked"
    /\ troute' = [troute EXCEPT ![t] = classify(treq[t].path)]
    /\ pc' = [pc EXCEPT ![t] = "classified"]
    /\ UNCHANGED <<users, seqHistory, pairVars, treq, tresp, lock, serial, texp, towns>>

\* The branch for the route and method runs on the store and builds the
\* response.
Operate(t) ==
    /\ pc[t] = "classified"
    /\ \E r \in {operate(users, treq[t].method, troute[t])} :
       \E ex \in {Summary(treq[t], r.response)} :
          /\ users' = r.users
          /\ tresp' = [tresp EXCEPT ![t] = r.response]
          /\ towns' = [u \in Tasks |->
                          IF u = t THEN ex.kind = "insert"
                          ELSE IF /\ ex.kind = "remove"
                                  /\ towns[u]
                                  /\ BodyId(tresp[u]) = ex.id
                               THEN FALSE
                               ELSE towns[u]]
    /\ pc' = [pc EXCEPT ![t] = "operated"]
    /\ UNCHANGED <<seqHistory, pairVars, treq, troute, lock, serial, texp>>

\* Mutant of Unlock: the guard outlives the block and the mutex stays taken.
Unlock_keeps_guard(t) ==
    /\ pc[t] = "operated"
    /\ pc' = [pc EXCEPT ![t] = "unlocked"]
    /\ UNCHANGED <<users, seqHistory, pairVars, treq, troute, tresp, lock, serial, texp, towns>>

\* The block ends: the MutexGuard users is dropped and the mutex is free.
Unlock(t) ==
    /\ pc[t] = "operated"
    /\ lock' = NoTask
    /\ pc' = [pc EXCEPT ![t] = "unlocked"]
    /\ UNCHANGED <<users, seqHistory, pairVars, treq, troute, tresp, serial, texp, towns>>

\* future::ok(response): the response is handed back to hyper.
Return(t) ==
    /\ pc[t] = "unlocked"
    /\ pc' = [pc EXCEPT ![t] = "idle"]
    /\ treq' = [treq EXCEPT ![t] = NoRequest]
    /\ troute' = [troute EXCEPT ![t] = NoRoute]
    /\ tresp' = [tresp EXCEPT ![t] = NoResponse]
    /\ texp' = [texp EXCEPT ![t] = NoResponse]
    /\ towns' = [towns EXCEPT ![t] = FALSE]
    /\ UNCHANGED <<users, seqHistory, pairVars, lock, serial>>

\* What a task does by itself once it has a request.
Progress(t) == Lock(t) \/ Classify(t) \/ Operate(t) \/ Unlock(t) \/ Return(t)

NextConc ==
    \E t \in Tasks :
        \/ \E rq \in ConcRequests : Dispatch(t, rq)
        \/ Lock(t)
        \/ Classify(t)
        \/ Operate(t)
        \/ Unlock(t)
        \/ Return(t)

SpecConc == Init /\ [][NextConc]_vars

\* Every task that can take a step of its own eventually takes one; the
\* mutex promises nothing more to a waiting task.
SpecConcFair == SpecConc /\ \A t \in Tasks : WF_vars(Progress(t))

\* ---------------------------------------------------- reading the responses
NoId == 0 - 1

\* The comma-separated pieces of a body (one empty piece for the empty body).
RECURSIVE Pieces(_, _)
Pieces(s, cur) ==
    IF s = <<>> THEN <<cur>>
    ELSE IF s[1] = "," THEN <<cur>> \o Pieces(Tail(s), <<>>)
    ELSE Pieces(Tail(s), Append(cur, s[1]))

IdOfPiece(s) == IF parse_u64(s).some THEN parse_u64(s).val ELSE NoId

\* The ids a GET /users body lists, in the order it lists them.
ListedSeq(body) ==
    IF body = <<>> THEN <<>>
    ELSE LET ps == Pieces(body, <<>>) IN [i \in 1..Len(ps) |-> IdOfPiece(ps[i])]

ListedSet(body) == {ListedSeq(body)[i] : i \in 1..Len(ListedSeq(body))}

NoDuplicates(q) == \A i, j \in 1..Len(q) : q[i] = q[j] => i = j

ListsUsers(rq, rs) == rq.method = "GET" /\ USERS_PATH(rq.path) /\ rs.status = OK

\* The smallest natural number outside the finite set S.
LowestFree(S) ==
    CHOOSE n \in 0..Cardinality(S) : n \notin S /\ \A k \in 0..(n - 1) : k \in S

\* --------------------------------------------------------------------- C1
\* C1: whenever GET /users is answered, the set of ids its body renders is
\* exactly the set of ids returned by successful POST /user/ requests and not
\* removed since by a successful DELETE /user/{id}.
C1_ListEqualsLive ==
    ListsUsers(req, resp) => ListedSet(resp.body) = live

\* GET /users answered after inserts and a remove in the middle.
C1_Witness ==
    /\ ListsUsers(req, resp)
    /\ live = {0, 2}
    /\ 1 \in ever

\* --------------------------------------------------------------------- C2
\* C2 (as claimed): every successful POST /user/ returns the smallest
\* unsigned integer that is not the id of a live record.
C2_LowestFreeSlot ==
    [][last'.kind = "insert" => last'.id = LowestFree(live)]_vars

\* C2 (amended): a successful POST /user/ returns the slot freed by the most
\* recent successful DELETE whose slot has not been handed out again (freed
\* slots are reused last-freed-first); when no freed slot is outstanding it
\* returns the lowest free slot, which is the number of live records.
C2_LastFreedFirst ==
    [][last'.kind = "insert" =>
         last'.id = IF freed # <<>> THEN Head(freed) ELSE LowestFree(live)]_vars

\* An insert reused the slot freed last although a lower slot is still free.
C2_Witness ==
    /\ last.kind = "insert"
    /\ prev.kind = "remove"
    /\ last.id = prev.id
    /\ \E k \in 0..(last.id - 1) : k \notin live /\ k \in ever

\* --------------------------------------------------------------------- C3
\* C3: no id is held by two live records: a successful POST /user/ never
\* returns an id that is live when it is handled, GET /users never lists an
\* id twice, and GET, PUT and DELETE on /user/{id} answer 200 when id is live
\* when they are handled and 404 otherwise.
C3_IdsAreUnique ==
    [][/\ (last'.kind = "insert" => last'.id \notin live)
       /\ (ListsUsers(req', resp') => NoDuplicates(ListedSeq(resp'.body)))
       /\ (/\ req'.method \in {"GET", "PUT", "DELETE"}
           /\ PathIdOf[req'.path].some
           => resp'.status = IF PathIdOf[req'.path].val \in live
                             THEN OK ELSE NOT_FOUND)]_vars

\* A PUT on an id that was issued and removed is answered 404 while another
\* id is live.
C3_Witness ==
    /\ req.method = "PUT"
    /\ PathIdOf[req.path].some
    /\ PathIdOf[req.path].val \in ever \ live
    /\ live # {}
    /\ resp.status = NOT_FOUND

\* --------------------------------------------------------------------- C4
\* C4: when POST /user/ returned 200 with id n and the next request handled
\* is GET /user/n, that GET returns 200 with the body "{}".
C4_InsertThenGet ==
    (/\ prev.kind = "insert"
     /\ req.method = "GET"
     /\ PathIdOf[req.path] = Some(prev.id))
    => resp = [status |-> 200, body |-> <<"{", "}">>]

\* The GET follows an insert that reused a freed slot.
C4_Witness ==
    /\ prev.kind = "insert"
    /\ prev.id \in 1..MaxSlots
    /\ req.method = "GET"
    /\ PathIdOf[req.path] = Some(prev.id)
    /\ Cardinality(live) < Cardinality(ever)
    /\ resp.status = 200

\* --------------------------------------------------------------------- C5
\* C5: when DELETE /user/n returned 200 and the next request handled is
\* GET /user/n, that GET returns 404.
C5_RemoveThenGet ==
    (/\ prev.kind = "remove"
     /\ req.method = "GET"
     /\ PathIdOf[req.path] = Some(prev.id))
    => resp.status = 404

\* The GET follows the removal of an id while other ids stay live.
C5_Witness ==
    /\ prev.kind = "remove"
    /\ req.method = "GET"
    /\ PathIdOf[req.path] = Some(prev.id)
    /\ live # {}
    /\ resp.status = 404

\* --------------------------------------------------------------------- C6
\* C6: PUT and DELETE on /user/n for an id n that is not live (never issued,
\* or removed already) return 404 and leave the slab, entries and vacant
\* chain, exactly as it was.
C6_AbsentIdNoEffect ==
    [][(/\ req'.method \in {"PUT", "DELETE"}
        /\ PathIdOf[req'.path].some
        /\ PathIdOf[req'.path].val \notin live)
       => (resp'.status = 404 /\ users' = users /\ live' = live)]_vars

\* A second DELETE of the id that the previous request removed.
C6_Witness ==
    /\ prev.kind = "remove"
    /\ req.method = "DELETE"
    /\ PathIdOf[req.path] = Some(prev.id)
    /\ freed # <<>>
    /\ Head(freed) = prev.id
    /\ Len(freed) > 1
    /\ resp.status = 404

\* --------------------------------------------------------------------- C7
ScenarioResponses ==
    <<[status |-> 200, body |-> <<"0">>],
      [status |-> 200, body |-> <<"{", "}">>],
      [status |-> 200, body |-> <<>>],
      [status |-> 404, body |-> <<>>],
      [status |-> 200, body |-> <<"0">>]>>

\* C7: from the empty store, with nothing interleaved, POST /user/,
\* GET /user/0, DELETE /user/0, GET /user/0, POST /user/ are answered
\* 200 "0", 200 "{}", 200 with an empty body, 404 and 200 "0".
C7_Scenario ==
    scen \in 1..Len(Scenario) => resp = ScenarioResponses[scen]

\* The whole scenario has run.
C7_Witness ==
    /\ scen = Len(Scenario)
    /\ req = Scenario[Len(Scenario)]
    /\ live = {0}

\* --------------------------------------------------------------------- C8
\* C8: POST /user/{id} with a parseable id returns 400 whether or not id is
\* live, and inserts, modifies or removes nothing.
C8_PostWithIdRejected ==
    [][(req'.method = "POST" /\ PathIdOf[req'.path].some)
       => (resp'.status = 400 /\ users' = users /\ live' = live)]_vars

\* POST /user/{id} on a live id, answered 400.
C8_Witness ==
    /\ req.method = "POST"
    /\ PathIdOf[req.path].some
    /\ PathIdOf[req.path].val \in live
    /\ resp.status = 400

\* --------------------------------------------------------------------- C9
\* C9: on a /user/ path, GET, PUT and DELETE without an id segment, and any
\* method other than POST, GET, PUT and DELETE with or without an id, return
\* 405 and leave the store unchanged; 404 is returned on such a path only
\* when a parseable id is not live.
C9_MethodNotAllowed ==
    [][IsUserPath[req'.path] =>
        /\ (/\ req'.method \in {"GET", "PUT", "DELETE"}
            /\ ~USER_PATH(req'.path).val.some
            => resp'.status = 405 /\ users' = users /\ live' = live)
        /\ (req'.method \notin {"POST", "GET", "PUT", "DELETE"}
            => resp'.status = 405 /\ users' = users /\ live' = live)
        /\ (resp'.status = 404
            => /\ PathIdOf[req'.path].some
               /\ PathIdOf[req'.path].val \notin live)]_vars

\* PATCH on a live id, answered 405.
C9_Witness ==
    /\ req.method = "PATCH"
    /\ IsUserPath[req.path]
    /\ PathIdOf[req.path].some
    /\ PathIdOf[req.path].val \in live
    /\ resp.status = 405

\* -------------------------------------------------------------------- C10
IndexAnswer(rq) ==
    IF rq.method = "GET" THEN [status |-> 200, body |-> INDEX]
    ELSE [status |-> 405, body |-> <<>>]

\* C10 (as claimed): a request on /, /index.html or /index is answered as
\* Index: GET with 200 and the static page, any other method with 405.
C10_IndexPaths ==
    req.path \in {Slash, IndexHtm \o <<"l">>, <<"/", "i", "n", "d", "e", "x">>}
    => resp = IndexAnswer(req)

\* C10 (amended): a request on /, /index.htm or /index.html is answered as
\* Index: GET with 200 and the static page, any other method with 405, in
\* every store state; /index is no Index path and is answered 404.
C10_IndexPathsHtm ==
    /\ req.path \in {Slash, IndexHtm, IndexHtm \o <<"l">>}
       => resp = IndexAnswer(req)
    /\ req.path = <<"/", "i", "n", "d", "e", "x">>
       => resp = [status |-> 404, body |-> <<>>]

\* GET /index.htm answered with the page while records are live.
C10_Witness ==
    /\ req = Rq("GET", IndexHtm)
    /\ resp.status = 200
    /\ resp.body = INDEX
    /\ live # {}

\* -------------------------------------------------------------------- C11
\* A body made of digits and single commas, with no comma first or last.
WellJoined(body) ==
    \/ body = <<>>
    \/ /\ body[1] # "," /\ body[Len(body)] # ","
       /\ \A i \in 1..Len(body) : IsAsciiDigit(body[i]) \/ body[i] = ","
       /\ \A i \in 1..(Len(body) - 1) : body[i] = "," => body[i + 1] # ","

Ascending(q) == \A i, j \in 1..Len(q) : i < j => q[i] < q[j]

\* C11: GET /users and GET /users/ return 200 with the live ids in ascending
\* slot order joined by single commas, no separator first or last, and the
\* empty string when no record is live ("0,1" after two inserts into the
\* empty store); any other method on these paths returns 405.
C11_ListRendering ==
    req.path \in {UsersStr, UsersStr \o Slash} =>
        IF req.method = "GET"
        THEN /\ resp.status = 200
             /\ WellJoined(resp.body)
             /\ Ascending(ListedSeq(resp.body))
             /\ ListedSet(resp.body) = live
             /\ (live = {} <=> resp.body = <<>>)
             /\ (live = {0, 1} => resp.body = <<"0", ",", "1">>)
        ELSE resp = [status |-> 405, body |-> <<>>]

\* GET /users/ after exactly two inserts into the empty store.
C11_Witness ==
    /\ req = Rq("GET", UsersStr \o Slash)
    /\ resp.body = <<"0", ",", "1">>
    /\ ever = {0, 1}
    /\ freed = <<>>

\* -------------------------------------------------------------------- C12
OverflowPaths == {UserPrefix \o OverflowId, UserPrefix \o OverflowId \o <<"0">>}

\* The request paths whose id segment matches \d+ and fails to parse.
UnparsedIdPaths == OverflowPaths \cup {UserPrefix \o ArabicIndicThree}

\* C12: a /user/ path whose digits exceed 2^64-1 (or are digits of another
\* script, which do not parse either) is a UserById path with no id: POST
\* inserts a record and returns 200 with the allocated id; GET, PUT and
\* DELETE return 405; the answer is never 400 or 404.
C12_OverflowIdIsAbsent ==
    [][req'.path \in UnparsedIdPaths =>
        /\ resp'.status \notin {400, 404}
        /\ (req'.method = "POST"
            => /\ resp'.status = 200
               /\ last'.kind = "insert"
               /\ last'.id \notin live
               /\ live' = live \cup {last'.id}
               /\ slab_contains(users', last'.id))
        /\ (req'.method \in {"GET", "PUT", "DELETE"}
            => resp' = [status |-> 405, body |-> <<>>] /\ users' = users)]_vars

\* POST /user/18446744073709551616 inserted a record next to live ones.
C12_Witness ==
    /\ req = Rq("POST", UserPrefix \o OverflowId)
    /\ resp.status = 200
    /\ last.kind = "insert"
    /\ live # {last.id}

\* -------------------------------------------------------------------- C13
UnmatchedExamples ==
    {<<"/", "u", "n", "k", "n", "o", "w", "n", "/", "p", "a", "t", "h">>,
     <<"/", "u", "s", "e", "r">>,
     <<"/", "u", "s", "e", "r", "/", "/">>}

\* C13: a request whose path matches none of Index, ListUsers and UserById
\* (/unknown/path, /user, /user//) returns 404 for every method tried and
\* leaves the store unchanged.
C13_UnmatchedIs404 ==
    [][(\/ req'.path \in UnmatchedExamples
        \/ ~(INDEX_PATH(req'.path) \/ USERS_PATH(req'.path) \/ IsUserPath[req'.path]))
       => /\ resp' = [status |-> 404, body |-> <<>>]
          /\ users' = users
          /\ live' = live]_vars

\* POST /user// answered 404 while records are live.
C13_Witness ==
    /\ req = Rq("POST", UserPrefix \o Slash)
    /\ resp.status = 404
    /\ live # {}

\* -------------------------------------------------------------------- C17
\* C17: every id returned by POST /user/ is strictly less than the largest
\* number of simultaneously live records reached up to and including that
\* insert.
C17_IdsBelowPeak ==
    last.kind = "insert" => last.id < peak

\* Insert, remove, insert: the second insert reuses id 0 with a peak of one.
C17_Witness ==
    /\ last.kind = "insert"
    /\ lastMut.kind = "reuse"
    /\ last.id = 0
    /\ peak = 1

\* -------------------------------------------------------------------- C18
\* C18: every request other than an inserting POST /user/ and a DELETE of a
\* live id (a successful PUT, every GET, every request answered 400, 404 or
\* 405) leaves the live ids and the id of the next insert unchanged.
C18_OnlyInsertAndRemoveWrite ==
    [][last'.kind = "other" =>
        /\ live' = live
        /\ slab_iter(users') = slab_iter(users)
        /\ slab_insert(users').key = slab_insert(users).key
        /\ users' = users]_vars

\* A successful PUT while a freed slot is waiting for reuse.
C18_Witness ==
    /\ req.method = "PUT"
    /\ resp.status = 200
    /\ PathIdOf[req.path].val \in live
    /\ freed # <<>>

\* -------------------------------------------------------------------- C20
\* C20: when DELETE /user/n returned 200 and the next request that inserts
\* or removes is POST /user/, that POST returns n again; GET, PUT and DELETE
\* on /user/n then answer 200.
C20_ImmediateReuse ==
    [][/\ (last'.kind = "insert" /\ lastMut.kind = "remove"
           => last'.id = lastMut.id)
       /\ (/\ lastMut.kind = "reuse"
           /\ req'.method \in {"GET", "PUT", "DELETE"}
           /\ PathIdOf[req'.path] = Some(lastMut.id)
           => resp'.status = 200)]_vars

\* A PUT on a reused id succeeds although a lower slot is free.
C20_Witness ==
    /\ lastMut.kind = "reuse"
    /\ req.method = "PUT"
    /\ PathIdOf[req.path] = Some(lastMut.id)
    /\ resp.status = 200
    /\ \E k \in 0..(lastMut.id - 1) : k \notin live

\* -------------------------------------------------------------------- C19
\* The responses the two stores give to the same request.
SameResponse(rq) ==
    call(users, rq.method, rq.path).response
        = call(usersB, rq.method, rq.path).response

\* A POST on a /user/ path that carries no usable id, i.e. an insert.
InsertingPost(rq) ==
    rq.method = "POST" /\ IsUserPath[rq.path] /\ ~PathIdOf[rq.path].some

\* C19 (as claimed): two request histories that end with the same set of live
\* ids get the same status and body for the same next request, the same id
\* for POST /user/ included.
C19_FunctionOfLiveIds ==
    live = liveB => \A rq \in Requests : SameResponse(rq)

\* C19 (amended): two request histories that end with the same set of live
\* ids get the same status and body for every next request that is not an
\* inserting POST /user/; the POST answers 200 in both with an id that is
\* not live, and with the same id when the free slots were also freed in the
\* same order.
C19_FunctionOfStore ==
    live = liveB =>
        \A rq \in Requests :
            /\ ~InsertingPost(rq) => SameResponse(rq)
            /\ InsertingPost(rq) =>
                /\ call(users, rq.method, rq.path).response.status = 200
                /\ call(usersB, rq.method, rq.path).response.status = 200
                /\ BodyId(call(users, rq.method, rq.path).response) \notin live
                /\ BodyId(call(usersB, rq.method, rq.path).response) \notin live
                /\ (freed = freedB => SameResponse(rq))

\* The same live ids after different histories, and POST /user/ answered
\* with different ids.
C19_Witness ==
    /\ live = liveB
    /\ live # {}
    /\ freed # freedB
    /\ ~SameResponse(Rq("POST", UserPrefix))
    /\ SameResponse(Rq("GET", UsersStr))

\* -------------------------------------------------------------------- C14
\* At most one task is between taking and releasing the mutex.
MutualExclusion == Cardinality({t \in Tasks : pc[t] \in InCritical}) <= 1

\* Every response built equals the one of the one-at-a-time run in the order
\* of lock acquisition, and so does the store once the holder has operated.
SerialOutcome ==
    /\ \A t \in Tasks : pc[t] \in {"operated", "unlocked"} => tresp[t] = texp[t]
    /\ (\A t \in Tasks : pc[t] \notin {"locked", "classified"}) => users = serial

\* The task has been answered by an insert and the response is still on its
\* way back.
AnsweredInsert(t) ==
    pc[t] \in {"operated", "unlocked"} /\ InsertOk(treq[t], tresp[t])

\* C14 (as claimed): at most one request is inside the critical section at a
\* time, responses and store equal those of handling the requests one at a
\* time in lock order, and two concurrent POST /user/ requests never receive
\* the same id.
C14_SerializedDistinctIds ==
    /\ MutualExclusion
    /\ SerialOutcome
    /\ \A t, u \in Tasks :
          (t # u /\ AnsweredInsert(t) /\ AnsweredInsert(u))
          => BodyId(tresp[t]) # BodyId(tresp[u])

\* C14 (amended): at most one request is inside the critical section at a
\* time, responses and store equal those of handling the requests one at a
\* time in lock order, and two concurrent POST /user/ requests never receive
\* the same id unless a DELETE of that id was handled between them.
C14_Serialized ==
    /\ MutualExclusion
    /\ SerialOutcome
    /\ \A t, u \in Tasks :
          (t # u /\ towns[t] /\ towns[u])
          => BodyId(tresp[t]) # BodyId(tresp[u])

\* Two POSTs in flight together, both answered, with different ids.
C14_Witness ==
    \E t, u \in Tasks :
        /\ t # u
        /\ pc[t] = "unlocked" /\ pc[u] = "operated"
        /\ towns[t] /\ towns[u]
        /\ BodyId(tresp[t]) # BodyId(tresp[u])

\* -------------------------------------------------------------------- C15
\* C15 (as claimed): every dispatched request eventually acquires the lock,
\* the holder always releases it, and every request eventually has its
\* response returned.
C15_EveryRequestAcquires ==
    \A t \in Tasks :
        /\ (pc[t] = "called") ~> (lock = t)
        /\ (lock = t) ~> (lock # t)
        /\ (pc[t] # "idle") ~> (pc[t] = "idle")

\* C15 (amended): every request that acquires the lock eventually releases
\* it and has its response returned, and whenever a request waits for the
\* lock some request eventually acquires it (no deadlock); a particular
\* waiting request can be overtaken for ever while other requests keep
\* arriving, the mutex being unfair.
C15_HolderFinishes ==
    /\ \A t \in Tasks : (lock = t) ~> (lock # t /\ pc[t] = "idle")
    /\ (\E u \in Tasks : pc[u] = "called") ~> (\E u \in Tasks : pc[u] = "locked")

\* One request waits for the lock while another one holds it.
C15_Witness ==
    \E t, u \in Tasks :
        /\ t # u
        /\ pc[t] = "called"
        /\ lock = u
        /\ pc[u] \in InCritical

\* -------------------------------------------------------------------- C16
\* C16 (as claimed): the path is classified and the id extracted before the
\* lock is acquired; the lock is never held while the path is classified.
C16_ClassifyOutsideLock ==
    [][\A t \in Tasks :
         (troute[t] = NoRoute /\ troute'[t] # NoRoute) => lock # t]_vars

StepOf(t, from, to) == pc[t] = from /\ pc'[t] = to

\* C16 (amended): for every request the lock is acquired first, the path is
\* then classified and the id extracted while the lock is held, then the
\* operation runs, then the lock is released, then the response is returned;
\* the lock is never still held when the response is handed back.
C16_StepOrder ==
    [][\A t \in Tasks :
         /\ pc'[t] # pc[t] =>
               <<pc[t], pc'[t]>> \in
                   {<<"idle", "called">>, <<"called", "locked">>,
                    <<"locked", "classified">>, <<"classified", "operated">>,
                    <<"operated", "unlocked">>, <<"unlocked", "idle">>}
         /\ StepOf(t, "called", "locked")
               => lock = NoTask /\ lock' = t /\ troute[t] = NoRoute
         /\ StepOf(t, "locked", "classified")
               => lock = t /\ lock' = t /\ troute'[t] # NoRoute
         /\ StepOf(t, "classified", "operated")
               => lock = t /\ lock' = t /\ tresp'[t] # NoResponse
         /\ StepOf(t, "operated", "unlocked") => lock = t /\ lock' # t
         /\ StepOf(t, "unlocked", "idle") => lock # t /\ lock' # t]_vars

\* A response is still on its way back while the next request already holds
\* the lock and has classified its path.
C16_Witness ==
    \E t, u \in Tasks :
        /\ pc[t] = "unlocked"
        /\ tresp[t] # NoResponse
        /\ lock = u
        /\ pc[u] = "classified"
        /\ troute[u] # NoRoute

====
